---------------------------- MODULE Spec2Model ----------------------------
(***************************************************************************)
(* Attendance capture and record store of the HR hub.                      *)
(*                                                                         *)
(*   server/src/routes/attendance.ts   the attendance routes (the store)   *)
(*   src/pages/EmployeeDashboard.tsx   the capture workflow of one user    *)
(*   unnamed/part_004                  the PostgreSQL schema               *)
(*                                                                         *)
(* Encoding.  A time of day "HH:MM" is the integer HH*100+MM, i.e. the     *)
(* decimal digits of the string; a key that is missing from a JSON body    *)
(* is ABSENT (JavaScript undefined) and a JSON null or SQL NULL is NULL.   *)
(* For string-valued fields the same two markers are the strings           *)
(* "undefined" and "null".  The columns created_at and updated_at are      *)
(* wall-clock stamps and are left out.                                     *)
(***************************************************************************)
EXTENDS Integers, Sequences, FiniteSets, TLC

VARIABLES
    attendance,     \* the rows of table attendance
    nextId,         \* the next value of the SERIAL column id
    posts,          \* the running instances of router.post('/'), by slot
    gets,           \* the running GET /attendance requests of the page, by slot
    clock,          \* the wall clock "HH:MM" of the user's device
    selectedDate,           \* useState, EmployeeDashboard.tsx:52
    todayAttendance,        \* useState :51, {} for null, else {the record shown}
    showAttendanceDialog,   \* useState :53
    cameraIsOpen,           \* useState :54
    activeCapture,          \* useState :55
    capturedImage,          \* useState :56
    mediaStreamRef,         \* useRef :58, 0 for null, else a stream
    videoSrc,               \* videoRef.current.srcObject, 0 for null
    liveStreams,            \* the camera streams whose tracks are not stopped
    cams,           \* the running instances of handleOpenCamera, by slot
    toast,          \* the title of the toast raised by the page's last step
    submits,        \* how many times handleSubmitAttendance has sent a POST
    clsTime,        \* classifier harness: the time handed to the classifier
    clsStatus,      \* classifier harness: the status it returned
    clsMinutes,     \* classifier harness: the minutesLate it computed
    geoPos,         \* geofence harness: {} or {the fix handed to the check}
    geoDecision,    \* geofence harness: what the check decided
    repAttendance,  \* report page: useState attendance, part_001:68
    repEmployees,   \* report page: useState employees, part_001:69
    repStartDate,   \* report page: useState startDate, part_001:62
    repEndDate,     \* report page: useState endDate, part_001:63
    repSearchTerm,  \* report page: useState searchTerm, part_001:64
    reportData,     \* report page: the value of the useMemo, part_001:109
    csvContent,     \* report page: the text of the last file exported
    csvRead,        \* a reader of delimited text, on a file exported
    admins,         \* instances of router.put('/:id') and router.delete('/:id')
    listed          \* the last request of router.get('/') and its response

dbVars == <<attendance, nextId>>
camVars == <<cameraIsOpen, activeCapture, capturedImage, mediaStreamRef,
             videoSrc, liveStreams>>
pageVars == <<selectedDate, todayAttendance, showAttendanceDialog, cameraIsOpen,
              activeCapture, capturedImage, mediaStreamRef, videoSrc,
              liveStreams, cams, toast, submits>>
clsVars == <<clsTime, clsStatus, clsMinutes>>
geoVars == <<geoPos, geoDecision>>
repVars == <<repAttendance, repEmployees, repStartDate, repEndDate,
             repSearchTerm, reportData, csvContent, csvRead>>
adminVars == <<admins, listed>>
harnessVars == <<clsVars, geoVars, repVars, adminVars>>
vars == <<attendance, nextId, posts, gets, clock, selectedDate, todayAttendance,
          showAttendanceDialog, cameraIsOpen, activeCapture, capturedImage,
          mediaStreamRef, videoSrc, liveStreams, cams, toast, submits,
          clsTime, clsStatus, clsMinutes, geoPos, geoDecision,
          repAttendance, repEmployees, repStartDate, repEndDate,
          repSearchTerm, reportData, csvContent, csvRead, admins, listed>>

---------------------------------------------------------------------------
(* Values *)

ABSENT == -2
NULL == -1
SABSENT == "undefined"
SNULL == "null"

\* Bounds of the model.
MaxPosts == 2      \* POST requests being handled at once
MaxId == 2         \* values the SERIAL column hands out
MaxGets == 1       \* GET requests of the page in flight at once
MaxCams == 2       \* handleOpenCamera instances running at once
MaxStreams == 2    \* camera streams live at once
MaxSubmits == 2    \* POSTs the page sends in one run
MaxFlowPosts == 1  \* POSTs of the page awaiting their response at once
MaxTicks == 1      \* minutes the device clock advances in one run
GeoSpan == 20      \* fixes of the geofence harness: this many units each way
MaxRecords == 3    \* records in the list the report page has fetched
MaxAdmin == 2      \* PUT and DELETE requests in one run

Employees == {"E1", "E2"}
Today == "2025-04-02"
Yesterday == "2025-04-01"
EmployeeName == [e \in Employees |-> IF e = "E1" THEN "Ana Cruz" ELSE "Ben Dy"]
StatusEnum == {"present", "absent", "late", "half-day", "leave"}

\* "HH:MM" of hours h and minutes m, both padded to two digits
\* (EmployeeDashboard.tsx:300).
TimeString(h, m) ==
    ((h \div 10) * 10 + (h % 10)) * 100 + ((m \div 10) * 10 + (m % 10))

\* new Date(`2000-01-01T${s}`).getTime(), in milliseconds from local
\* midnight of that day.
DateGetTime(s) == ((s \div 100) * 60 + (s % 100)) * 60000

\* Math.floor(x / 60000) for an integer x of either sign.
FloorMinutes(x) == x \div 60000

\* new Date('2000-01-01T08:11') (EmployeeDashboard.tsx:306).
ExpectedTime == TimeString(8, 11)

\* minutesLate of a check-in at timeString (EmployeeDashboard.tsx:305-307).
MinutesLate(timeString) ==
    FloorMinutes(DateGetTime(timeString) - DateGetTime(ExpectedTime))

\* The mutant of the classifier: the tie at the threshold counts as late.
ClassifyLateAtTie(timeString) ==
    IF MinutesLate(timeString) >= 0 THEN "late" ELSE "present"

\* The status of a check-in at timeString (EmployeeDashboard.tsx:303-311).
ClassifyCheckIn(timeString) ==
    IF MinutesLate(timeString) > 0 THEN "late" ELSE "present"

---------------------------------------------------------------------------
(* The table attendance (unnamed/part_004:293-307) *)

Row(id, e, name, d, ci, co, st, notes, cii, coi) ==
    [id |-> id, employee_id |-> e, employee_name |-> name, date |-> d,
     check_in |-> ci, check_out |-> co, status |-> st, notes |-> notes,
     check_in_image |-> cii, check_out_image |-> coi]

RowsOf(tbl, e, d) == {r \in tbl : r.employee_id = e /\ r.date = d}

\* The mutant of the constraint: no UNIQUE (employee_id, date).
UniqueViolationNever(tbl, e, d) == FALSE

\* UNIQUE (employee_id, date): an insert of (e, d) is refused.
UniqueViolation(tbl, e, d) == RowsOf(tbl, e, d) # {}

\* supabase .select('id').eq('employee_id', e).eq('date', d).single():
\* the row's id when exactly one row matches, no data otherwise.
SelectSingleId(tbl, e, d) ==
    IF Cardinality(RowsOf(tbl, e, d)) = 1
    THEN (CHOOSE r \in RowsOf(tbl, e, d) : TRUE).id
    ELSE NULL

\* x || null for a time, and for a string.
OrNull(x) == IF x = ABSENT THEN NULL ELSE x
SOrNull(x) == IF x = SABSENT \/ x = "" THEN SNULL ELSE x

---------------------------------------------------------------------------
(* Request bodies of POST /attendance *)

Body(e, d, ci, co, st, notes, cii, coi) ==
    [employeeId |-> e, employeeName |-> EmployeeName[e], date |-> d,
     checkIn |-> ci, checkOut |-> co, status |-> st, notes |-> notes,
     checkInImage |-> cii, checkOutImage |-> coi]

\* attendanceSchema.safeParse succeeds (attendance.ts:9-19); times and
\* dates of the model are well-formed, so what is left is the enum.
SchemaOk(b) ==
    /\ b.employeeId # ""
    /\ b.status \in StatusEnum \cup {SABSENT}

\* parseResult.data: status defaults to 'present'.
SchemaData(b) == [b EXCEPT !.status = IF @ = SABSENT THEN "present" ELSE @]

\* The mutant of the update branch: both event columns are written from
\* the body, as the insert branch does.
UpdateDataBlanking(r, b) ==
    [r EXCEPT
        !.status = b.status,
        !.check_in = OrNull(b.checkIn),
        !.check_out = OrNull(b.checkOut),
        !.notes = IF b.notes # SABSENT THEN SOrNull(b.notes) ELSE @,
        !.check_in_image = SOrNull(b.checkInImage),
        !.check_out_image = SOrNull(b.checkOutImage)]

\* The update object of the update branch (attendance.ts:145-153) applied
\* to row r; b is the parsed body.
UpdateData(r, b) ==
    [r EXCEPT
        !.status = b.status,
        !.check_in = IF b.checkIn # ABSENT THEN OrNull(b.checkIn) ELSE @,
        !.check_out = IF b.checkOut # ABSENT THEN OrNull(b.checkOut) ELSE @,
        !.notes = IF b.notes # SABSENT THEN SOrNull(b.notes) ELSE @,
        !.check_in_image = IF b.checkInImage # SABSENT THEN SOrNull(b.checkInImage) ELSE @,
        !.check_out_image = IF b.checkOutImage # SABSENT THEN SOrNull(b.checkOutImage) ELSE @]

\* The mutant of the insert branch: status is left to the column default.
InsertRowDefaultStatus(id, b) ==
    Row(id, b.employeeId, b.employeeName, b.date, OrNull(b.checkIn),
        OrNull(b.checkOut), "present", SOrNull(b.notes),
        SOrNull(b.checkInImage), SOrNull(b.checkOutImage))

\* The row of the insert branch (attendance.ts:172-182).
InsertRow(id, b) ==
    Row(id, b.employeeId, b.employeeName, b.date, OrNull(b.checkIn),
        OrNull(b.checkOut), b.status, SOrNull(b.notes),
        SOrNull(b.checkInImage), SOrNull(b.checkOutImage))

---------------------------------------------------------------------------
(* router.post('/') (attendance.ts:110-215) *)

Slots == 1..MaxPosts
FreePost == [pc |-> "free"]
FreeSlots == {i \in Slots : posts[i].pc = "free"}
\* a new instance takes the lowest free slot
NewSlot == CHOOSE i \in FreeSlots : \A j \in FreeSlots : i <= j

\* A request arrives: parse, 400 when invalid, otherwise the handler is
\* about to run its existence query.
PostReceive(src, b) ==
    /\ FreeSlots # {}
    /\ posts' = [posts EXCEPT ![NewSlot] =
            IF SchemaOk(b)
            THEN [pc |-> "select", src |-> src, body |-> SchemaData(b),
                  existing |-> NULL, res |-> 0]
            ELSE [pc |-> "done", src |-> src, body |-> b,
                  existing |-> NULL, res |-> 400]]
    /\ UNCHANGED dbVars

\* The existence query runs (attendance.ts:133-138).
PostSelect(i) ==
    /\ posts[i].pc = "select"
    /\ posts' = [posts EXCEPT ![i].pc = "write",
                              ![i].existing = SelectSingleId(attendance,
                                    posts[i].body.employeeId, posts[i].body.date)]
    /\ UNCHANGED <<dbVars, gets, clock, pageVars, harnessVars>>

\* The update branch runs (attendance.ts:143-167): no row of that id (it
\* was deleted meanwhile) makes .single() fail, and the handler answers 500.
PostUpdate(i) ==
    /\ posts[i].pc = "write"
    /\ posts[i].existing # NULL
    /\ LET hit == {r \in attendance : r.id = posts[i].existing}
       IN  /\ attendance' = (attendance \ hit) \cup
                                {UpdateData(r, posts[i].body) : r \in hit}
           /\ posts' = [posts EXCEPT ![i].pc = "done",
                                     ![i].res = IF hit = {} THEN 500 ELSE 201]
    /\ UNCHANGED <<nextId, gets, clock, pageVars, harnessVars>>

\* The insert branch runs (attendance.ts:168-192): the sequence behind id
\* advances whether or not the row goes in.
PostInsert(i) ==
    /\ posts[i].pc = "write"
    /\ posts[i].existing = NULL
    /\ nextId <= MaxId
    /\ nextId' = nextId + 1
    /\ LET b == posts[i].body
       IN  IF UniqueViolation(attendance, b.employeeId, b.date)
           THEN /\ attendance' = attendance
                /\ posts' = [posts EXCEPT ![i].pc = "done", ![i].res = 500]
           ELSE /\ attendance' = attendance \cup {InsertRow(nextId, b)}
                /\ posts' = [posts EXCEPT ![i].pc = "done", ![i].res = 201]
    /\ UNCHANGED <<gets, clock, pageVars, harnessVars>>

\* The write of either branch fails in the database (updateError or
\* insertError for a reason other than the constraint): the handler throws
\* and answers 500 (attendance.ts:162-164, 186-188, 211-214).
PostDbError(i) ==
    /\ posts[i].pc = "write"
    /\ posts' = [posts EXCEPT ![i].pc = "done", ![i].res = 500]
    /\ UNCHANGED <<dbVars, gets, clock, pageVars, harnessVars>>

\* A caller that is not the capture workflow reads its response.
ApiResponse(i) ==
    /\ posts[i].pc = "done"
    /\ posts[i].src = "api"
    /\ posts' = [posts EXCEPT ![i] = FreePost]
    /\ UNCHANGED <<dbVars, gets, clock, pageVars, harnessVars>>

---------------------------------------------------------------------------
(* Callers of the route other than the capture workflow *)

ApiInTime == TimeString(8, 12)
ApiOutTime == TimeString(17, 0)
Frame == "data:image/jpeg;A"

\* Bodies a caller may send: a check-in event with or without a status, a
\* check-out event, and a body the schema refuses.
ApiBodies ==
    {Body(e, Today, ApiInTime, ABSENT, st, SABSENT, Frame, SABSENT) :
        e \in Employees, st \in {SABSENT, "late"}}
    \cup
    {Body(e, Today, ABSENT, ApiOutTime, SABSENT, SABSENT, SABSENT, Frame) :
        e \in Employees}
    \cup
    {Body("E1", Today, ApiInTime, ABSENT, "bogus", SABSENT, Frame, SABSENT)}

ApiPost(b) ==
    /\ PostReceive("api", b)
    /\ UNCHANGED <<gets, clock, pageVars, harnessVars>>

---------------------------------------------------------------------------
(* router.get('/') as the page calls it (attendance.ts:42-85) *)

\* The signed-in user of the page.
User == "E1"
Dates == {Yesterday, Today}

\* mapAttendanceRow (attendance.ts:26-39): a NULL column is left out.
MapAttendanceRow(r) ==
    [id |-> r.id, employeeId |-> r.employee_id, date |-> r.date,
     checkIn |-> IF r.check_in = NULL THEN ABSENT ELSE r.check_in,
     checkOut |-> IF r.check_out = NULL THEN ABSENT ELSE r.check_out,
     status |-> r.status,
     checkInImage |-> IF r.check_in_image = SNULL THEN SABSENT ELSE r.check_in_image,
     checkOutImage |-> IF r.check_out_image = SNULL THEN SABSENT ELSE r.check_out_image]

\* data[0] of GET /attendance?employeeId=e&date=d: the rows of (e, d)
\* ordered by check_in descending, which puts NULL first; {} when none.
ListFirst(tbl, e, d) ==
    LET rows == RowsOf(tbl, e, d)
    IN  IF rows = {} THEN {}
        ELSE {MapAttendanceRow(CHOOSE r \in rows : \A q \in rows :
                \/ r.check_in = NULL
                \/ q.check_in # NULL /\ r.check_in >= q.check_in)}

\* The object handed to setTodayAttendance (EmployeeDashboard.tsx:153-159).
TodayAttendanceOf(att) ==
    [checkIn |-> att.checkIn, checkOut |-> att.checkOut,
     checkInImage |-> att.checkInImage, checkOutImage |-> att.checkOutImage,
     status |-> IF att.status = "" THEN "absent" ELSE att.status]

GetSlots == 1..MaxGets
FreeGet == [pc |-> "free"]
FreeGets == {k \in GetSlots : gets[k].pc = "free"}
NewGet == CHOOSE k \in FreeGets : \A j \in FreeGets : k <= j

\* fetch(`/attendance?employeeId=${user.employeeId}&date=${d}`) leaves the page.
GetSent(kind, d) ==
    [gets EXCEPT ![NewGet] = [pc |-> "sent", kind |-> kind, date |-> d, data |-> {}]]

\* The query of router.get('/') runs.
GetServe(k) ==
    /\ gets[k].pc = "sent"
    /\ gets' = [gets EXCEPT ![k].pc = "replied",
                            ![k].data = ListFirst(attendance, User, gets[k].date)]
    /\ UNCHANGED <<dbVars, posts, clock, pageVars, harnessVars>>

\* The page reads the response: the poll (:149-162) and the date change
\* (:587-598) set the record or null, the refresh after a submit (:350-361)
\* sets the record only when there is one.
GetDeliver(k) ==
    /\ gets[k].pc = "replied"
    /\ todayAttendance' =
          IF gets[k].kind = "refresh" /\ gets[k].data = {}
          THEN todayAttendance
          ELSE {TodayAttendanceOf(att) : att \in gets[k].data}
    /\ gets' = [gets EXCEPT ![k] = FreeGet]
    /\ toast' = ""
    /\ UNCHANGED <<dbVars, posts, clock, selectedDate, showAttendanceDialog,
                   camVars, cams, submits, harnessVars>>

---------------------------------------------------------------------------
(* Geofence of handleOpenCamera (EmployeeDashboard.tsx:191-215) *)
(*                                                                         *)
(* Coordinates are in units of 0.0001 degree.  Within some tens of units   *)
(* of the anchor the haversine distance R*c is, to well under a            *)
(* centimetre, R*sqrt(dLat^2 + cos(userLat)*cos(institutionLat)*dLon^2);   *)
(* the model computes its square in cm^2 in 32-bit integers and compares   *)
(* it with the square of the radius.                                       *)

InstitutionLat == 145995
InstitutionLng == 1209842
\* 0.1 km in centimetres (EmployeeDashboard.tsx:208).
RadiusCm == 10000

\* 10000 * cos of a latitude given in 0.0001 degree (Taylor to x^4).
Cos4(lat) ==
    LET x == (lat * 1745) \div 100000
        x2 == x * x
    IN  10000 - (x2 \div 20000) + (((x2 \div 1000) * (x2 \div 1000)) \div 24000000)

\* The mutant of the distance: the latitude term is dropped.
DistanceSqCmLngOnly(userLat, userLng) ==
    LET dLon == InstitutionLng - userLng
        cc == (Cos4(userLat) * Cos4(InstitutionLat)) \div 100000
    IN  (cc * dLon * dLon) * 1236

\* distance^2 in cm^2; one unit of latitude is 1111.949 cm.
DistanceSqCm(userLat, userLng) ==
    LET dLat == InstitutionLat - userLat
        dLon == InstitutionLng - userLng
        cc == (Cos4(userLat) * Cos4(InstitutionLat)) \div 100000
    IN  (dLat * dLat * 1000 + cc * dLon * dLon) * 1236

\* The mutant of the gate: every fix passes.
OutsideGeofenceNever(pos) == FALSE

\* distance > 0.1
OutsideGeofence(pos) == DistanceSqCm(pos.lat, pos.lng) > RadiusCm * RadiusCm

\* Fixes the geolocation provider may return: the anchor, 211 m north of
\* it, 108 m east of it.
DevicePositions ==
    {[lat |-> 145995, lng |-> 1209842], [lat |-> 146014, lng |-> 1209842],
     [lat |-> 145995, lng |-> 1209852]}

---------------------------------------------------------------------------
(* The capture workflow (EmployeeDashboard.tsx) *)

CamSlots == 1..MaxCams
FreeCam == [pc |-> "free"]
FreeCams == {c \in CamSlots : cams[c].pc = "free"}
NewCam == CHOOSE c \in FreeCams : \A j \in FreeCams : c <= j

\* canvas.toDataURL('image/jpeg') of the video element: a non-empty data
\* URL whether or not a stream is attached (an empty canvas gives "data:,");
\* the model does not tell frames apart.
CapturedFrame == Frame

HasCheckIn == \E v \in todayAttendance : v.checkIn # ABSENT
HasCheckOut == \E v \in todayAttendance : v.checkOut # ABSENT

\* Sign In / Sign Out are rendered and enabled (:659-686).
SignEnabled(type) ==
    /\ showAttendanceDialog
    /\ selectedDate = Today
    /\ IF type = "checkIn" THEN ~HasCheckIn ELSE ~HasCheckOut /\ HasCheckIn

\* setShowAttendanceDialog(true) (:401) and the dialog's onOpenChange (:568).
OpenAttendanceDialog ==
    /\ ~showAttendanceDialog
    /\ showAttendanceDialog' = TRUE
    /\ toast' = ""
    /\ UNCHANGED <<dbVars, posts, gets, clock, selectedDate, todayAttendance,
                   camVars, cams, submits, harnessVars>>

CloseAttendanceDialog ==
    /\ showAttendanceDialog
    /\ showAttendanceDialog' = FALSE
    /\ toast' = ""
    /\ UNCHANGED <<dbVars, posts, gets, clock, selectedDate, todayAttendance,
                   camVars, cams, submits, harnessVars>>

\* Select Date onChange (:580-602).
ChangeDate(d) ==
    /\ showAttendanceDialog
    /\ d # selectedDate
    /\ FreeGets # {}
    /\ selectedDate' = d
    /\ gets' = GetSent("date", d)
    /\ toast' = ""
    /\ UNCHANGED <<dbVars, posts, clock, todayAttendance, showAttendanceDialog,
                   camVars, cams, submits, harnessVars>>

\* The one-minute interval of fetchTodayAttendance fires (:169-172).
PollTick ==
    /\ FreeGets # {}
    /\ gets' = GetSent("poll", Today)
    /\ toast' = ""
    /\ UNCHANGED <<dbVars, posts, clock, selectedDate, todayAttendance,
                   showAttendanceDialog, camVars, cams, submits, harnessVars>>

\* handleOpenCamera(type) up to its await of getCurrentPosition (:184-189).
HandleOpenCamera(type) ==
    /\ SignEnabled(type)
    /\ FreeCams # {}
    /\ cams' = [cams EXCEPT ![NewCam] =
                    [pc |-> "locating", type |-> type, position |-> {}]]
    /\ toast' = ""
    /\ UNCHANGED <<dbVars, posts, gets, clock, selectedDate, todayAttendance,
                   showAttendanceDialog, camVars, submits, harnessVars>>

\* Sign In / Sign Out pressed while no earlier press is still running.
OpenCameraAlone(type) ==
    /\ \A c \in CamSlots : cams[c].pc = "free"
    /\ HandleOpenCamera(type)

\* getCurrentPosition rejects: denied, unavailable, or the 5 s timeout
\* (:216-223).
LocationError(c) ==
    /\ cams[c].pc = "locating"
    /\ cams' = [cams EXCEPT ![c] = FreeCam]
    /\ toast' = "Location Error"
    /\ UNCHANGED <<dbVars, posts, gets, clock, selectedDate, todayAttendance,
                   showAttendanceDialog, camVars, submits, harnessVars>>

\* getCurrentPosition resolves with pos (:191-227): outside the radius the
\* handler returns, inside it opens the dialog and asks for the camera.
LocationFix(c, pos) ==
    /\ cams[c].pc = "locating"
    /\ IF OutsideGeofence(pos)
       THEN /\ cams' = [cams EXCEPT ![c] = FreeCam]
            /\ toast' = "Location Error"
            /\ UNCHANGED <<cameraIsOpen, activeCapture, capturedImage>>
       ELSE /\ cams' = [cams EXCEPT ![c].pc = "camera", ![c].position = {pos}]
            /\ toast' = ""
            /\ activeCapture' = cams[c].type
            /\ cameraIsOpen' = TRUE
            /\ capturedImage' = SNULL
    /\ UNCHANGED <<dbVars, posts, gets, clock, selectedDate, todayAttendance,
                   showAttendanceDialog, mediaStreamRef, videoSrc, liveStreams,
                   submits, harnessVars>>

\* a stream that is not in use
NewStream == CHOOSE n \in 1..(MaxStreams + 2) :
                n \notin liveStreams \cup {mediaStreamRef, videoSrc}

\* getUserMedia resolves (:230-234): the video element exists while the
\* camera dialog is rendered.
CameraGranted(c) ==
    /\ cams[c].pc = "camera"
    /\ Cardinality(liveStreams) < MaxStreams
    /\ liveStreams' = liveStreams \cup {NewStream}
    /\ mediaStreamRef' = NewStream
    /\ videoSrc' = IF cameraIsOpen THEN NewStream ELSE videoSrc
    /\ cams' = [cams EXCEPT ![c] = FreeCam]
    /\ toast' = ""
    /\ UNCHANGED <<dbVars, posts, gets, clock, selectedDate, todayAttendance,
                   showAttendanceDialog, cameraIsOpen, activeCapture,
                   capturedImage, submits, harnessVars>>

\* getUserMedia rejects (:235-243).
CameraDenied(c) ==
    /\ cams[c].pc = "camera"
    /\ cameraIsOpen' = FALSE
    /\ videoSrc' = 0
    /\ cams' = [cams EXCEPT ![c] = FreeCam]
    /\ toast' = "Camera Error"
    /\ UNCHANGED <<dbVars, posts, gets, clock, selectedDate, todayAttendance,
                   showAttendanceDialog, activeCapture, capturedImage,
                   mediaStreamRef, liveStreams, submits, harnessVars>>

\* stopCamera (:262-270), as the next values of the three variables it
\* writes.
StopCamera ==
    /\ liveStreams' = liveStreams \ {mediaStreamRef}
    /\ mediaStreamRef' = 0
    /\ videoSrc' = 0

\* The mutant of closeCamera: the captured frame is kept.
CloseCameraKeepsFrame ==
    /\ StopCamera
    /\ cameraIsOpen' = FALSE
    /\ activeCapture' = SNULL
    /\ capturedImage' = capturedImage

\* closeCamera (:272-277).
CloseCamera ==
    /\ StopCamera
    /\ cameraIsOpen' = FALSE
    /\ activeCapture' = SNULL
    /\ capturedImage' = SNULL

\* handleCapturePhoto (:246-260); the Capture button is in the camera dialog.
HandleCapturePhoto ==
    /\ cameraIsOpen
    /\ capturedImage' = CapturedFrame
    /\ StopCamera
    /\ toast' = ""
    /\ UNCHANGED <<dbVars, posts, gets, clock, selectedDate, todayAttendance,
                   showAttendanceDialog, cameraIsOpen, activeCapture, cams,
                   submits, harnessVars>>

\* Cancel, X, or dismissing the camera dialog (:703, :715, :725).
CancelCamera ==
    /\ cameraIsOpen
    /\ CloseCamera
    /\ toast' = ""
    /\ UNCHANGED <<dbVars, posts, gets, clock, selectedDate, todayAttendance,
                   showAttendanceDialog, cams, submits, harnessVars>>

\* The mutant of the status sent: a check-out is a half day.
SubmitStatusHalfDay(kind, timeString) ==
    IF kind = "checkIn" THEN ClassifyCheckIn(timeString) ELSE "half-day"

\* The status handleSubmitAttendance sends (:303-311).
SubmitStatus(kind, timeString) ==
    IF kind = "checkIn" THEN ClassifyCheckIn(timeString) ELSE "present"

\* The payload of handleSubmitAttendance (:313-326).
Payload(kind, d, timeString, image) ==
    Body(User, d,
         IF kind = "checkIn" THEN timeString ELSE ABSENT,
         IF kind = "checkOut" THEN timeString ELSE ABSENT,
         SubmitStatus(kind, timeString), SABSENT,
         IF kind = "checkIn" THEN image ELSE SABSENT,
         IF kind = "checkOut" THEN image ELSE SABSENT)

\* handleSubmitAttendance up to its await of the POST (:279-334); Submit is
\* rendered in the attendance dialog while a captured image is held.
HandleSubmitAttendance ==
    /\ showAttendanceDialog
    /\ capturedImage # SNULL
    /\ submits < MaxSubmits
    /\ Cardinality({i \in Slots : posts[i].pc # "free" /\ posts[i].src = "flow"})
            < MaxFlowPosts
    /\ submits' = submits + 1
    /\ PostReceive("flow", Payload(activeCapture, selectedDate, clock, capturedImage))
    /\ toast' = ""
    /\ UNCHANGED <<gets, clock, selectedDate, todayAttendance,
                   showAttendanceDialog, camVars, cams, harnessVars>>

\* The mutant of the success path: no fetch after the submit.
SubmitOkNoRefresh(i) ==
    /\ posts[i].pc = "done" /\ posts[i].src = "flow"
    /\ posts[i].res = 201
    /\ FreeGets # {}
    /\ CloseCamera
    /\ showAttendanceDialog' = FALSE
    /\ posts' = [posts EXCEPT ![i] = FreePost]
    /\ toast' = "Success"
    /\ UNCHANGED <<dbVars, gets, clock, selectedDate, todayAttendance, cams,
                   submits, harnessVars>>

\* The POST answered ok (:341-349): close the camera and the dialog, then
\* fetch the record of the submitted date again.
SubmitOk(i) ==
    /\ posts[i].pc = "done" /\ posts[i].src = "flow"
    /\ posts[i].res = 201
    /\ FreeGets # {}
    /\ CloseCamera
    /\ showAttendanceDialog' = FALSE
    /\ gets' = GetSent("refresh", posts[i].body.date)
    /\ posts' = [posts EXCEPT ![i] = FreePost]
    /\ toast' = "Success"
    /\ UNCHANGED <<dbVars, clock, selectedDate, todayAttendance, cams, submits,
                   harnessVars>>

\* The mutant of the failure path: it closes the camera as the success
\* path does.
SubmitFailedCloses(i) ==
    /\ posts[i].pc = "done" /\ posts[i].src = "flow"
    /\ posts[i].res # 201
    /\ posts' = [posts EXCEPT ![i] = FreePost]
    /\ toast' = "Error"
    /\ CloseCamera
    /\ UNCHANGED <<dbVars, gets, clock, selectedDate, todayAttendance,
                   showAttendanceDialog, cams, submits, harnessVars>>

\* The POST answered with an error status (:336-339, :363-370).
SubmitFailed(i) ==
    /\ posts[i].pc = "done" /\ posts[i].src = "flow"
    /\ posts[i].res # 201
    /\ posts' = [posts EXCEPT ![i] = FreePost]
    /\ toast' = "Error"
    /\ UNCHANGED <<dbVars, gets, clock, selectedDate, todayAttendance,
                   showAttendanceDialog, camVars, cams, submits, harnessVars>>

\* fetch rejects (:328, :363-370): the request never reached the route.
SubmitNetworkError(i) ==
    /\ posts[i].pc = "select" /\ posts[i].src = "flow"
    /\ posts' = [posts EXCEPT ![i] = FreePost]
    /\ toast' = "Error"
    /\ UNCHANGED <<dbVars, gets, clock, selectedDate, todayAttendance,
                   showAttendanceDialog, camVars, cams, submits, harnessVars>>

\* The device clock, which new Date() reads, reaches the next minute.
ClockStart == TimeString(8, 11)
MinuteOfDay(s) == (s \div 100) * 60 + (s % 100)
Tick ==
    /\ MinuteOfDay(clock) - MinuteOfDay(ClockStart) < MaxTicks
    /\ clock' = TimeString((MinuteOfDay(clock) + 1) \div 60,
                           (MinuteOfDay(clock) + 1) % 60)
    /\ UNCHANGED <<dbVars, posts, gets, pageVars, harnessVars>>

---------------------------------------------------------------------------
(* reportData of the report page (unnamed/part_001:109-214) *)

\* new Date(d).getTime() of a date of the model, in days.
DateValue(d) == CASE d = Yesterday -> 1 [] d = Today -> 2

\* The mutant of the date filter: a range without its end date.
InDateFilterBeforeEnd(att) ==
    IF repStartDate # "" /\ repEndDate # ""
    THEN /\ DateValue(att.date) >= DateValue(repStartDate)
         /\ DateValue(att.date) < DateValue(repEndDate)
    ELSE IF repStartDate # "" THEN att.date = repStartDate ELSE TRUE

\* The filter on startDate / endDate (part_001:111-122).
InDateFilter(att) ==
    IF repStartDate # "" /\ repEndDate # ""
    THEN /\ DateValue(att.date) >= DateValue(repStartDate)
         /\ DateValue(att.date) <= DateValue(repEndDate)
    ELSE IF repStartDate # "" THEN att.date = repStartDate ELSE TRUE

\* The mutant of the join: a record without an employee is given the
\* first employee of the directory.
EmployeeMapGetOrFirst(id) ==
    LET idx == {i \in DOMAIN repEmployees : repEmployees[i].employeeId = id}
    IN  IF idx = {} THEN {repEmployees[1]}
        ELSE {repEmployees[CHOOSE i \in idx : \A j \in idx : j <= i]}

\* employeeMap.get(id) (part_001:124, 130): {} when there is none; of two
\* entries with one id the Map keeps the later.
EmployeeMapGet(id) ==
    LET idx == {i \in DOMAIN repEmployees : repEmployees[i].employeeId = id}
    IN  IF idx = {} THEN {}
        ELSE {repEmployees[CHOOSE i \in idx : \A j \in idx : j <= i]}

\* The mutant of the grouping key: one department for all.
DeptOfAll(emp) == "All"

\* employee.department || 'Unassigned' (part_001:133).
DeptOf(emp) == IF emp.department = "" THEN "Unassigned" ELSE emp.department

\* statusMap[att.status] || att.status (part_001:145-151, 163).
StatusMap(st) ==
    CASE st = "present" -> "Present" [] st = "absent" -> "Absent"
      [] st = "late" -> "Late" [] st = "half-day" -> "Half Day"
      [] st = "leave" -> "Leave" [] OTHER -> st

\* formatTime (part_001:153-160).
FormatTime(time) ==
    IF time = ABSENT THEN "---------"
    ELSE LET hour == time \div 100
             minutes == time % 100
             displayHour == IF hour % 12 = 0 THEN 12 ELSE hour % 12
         IN  ToString(displayHour) \o ":" \o ToString(minutes \div 10)
                \o ToString(minutes % 10)
                \o (IF hour >= 12 THEN " PM" ELSE " AM")

\* The mutant of the report's threshold: 08:00.
ReportMinutesLateFromEight(checkIn) ==
    FloorMinutes(DateGetTime(checkIn) - DateGetTime(TimeString(8, 0)))

\* minutesLate of the report (part_001:165-167).
ReportMinutesLate(checkIn) ==
    FloorMinutes(DateGetTime(checkIn) - DateGetTime(TimeString(8, 11)))

\* statusText (part_001:162-174).
StatusText(att) ==
    IF att.checkIn # ABSENT /\ att.status \in {"late", "present"}
    THEN IF ReportMinutesLate(att.checkIn) > 0
         THEN "Late (" \o ToString(ReportMinutesLate(att.checkIn)) \o " mins)"
         ELSE IF att.status = "late" THEN "Late" ELSE StatusMap(att.status)
    ELSE StatusMap(att.status)

\* employeeType (part_001:176-180).
EmployeeType(emp) ==
    IF emp.employmentType \in {"Regular", "Contractual", "Probationary",
                               "Project-Based"}
    THEN emp.employmentType ELSE "Regular"

\* toLocaleDateString('en-US', 2-digit) with '/' replaced by '-', in the
\* institution's time zone (part_001:185).
RowDate(d) == CASE d = Yesterday -> "04-01-2025" [] d = Today -> "04-02-2025"

\* The row pushed for record att of employee emp (part_001:182-190).
ReportRow(att, emp) ==
    [name |-> emp.fullName, type |-> EmployeeType(emp), date |-> RowDate(att.date),
     signIn |-> FormatTime(att.checkIn), signOut |-> FormatTime(att.checkOut),
     status |-> StatusText(att), employeeId |-> att.employeeId]

\* The characters of the strings the search compares, and toLowerCase.
Chars(str) ==
    CASE str = "E1" -> <<"E", "1">> [] str = "E2" -> <<"E", "2">>
      [] str = "E9" -> <<"E", "9">>
      [] str = "Ana Cruz" -> <<"A", "n", "a", " ", "C", "r", "u", "z">>
      [] str = "Ben Dy" -> <<"B", "e", "n", " ", "D", "y">>
      [] str = "an" -> <<"a", "n">> [] str = "AN" -> <<"A", "N">>
      [] str = "e2" -> <<"e", "2">>
      [] str = "" -> <<>>
      [] str = "Cruz, Ana" -> <<"C", "r", "u", "z", ",", " ", "A", "n", "a">>
      [] str = "Ana\nCruz" -> <<"A", "n", "a", "\n", "C", "r", "u", "z">>
      [] str = "Ana \"Annie\" Cruz" ->
            <<"A", "n", "a", " ", "\"", "A", "n", "n", "i", "e", "\"", " ",
              "C", "r", "u", "z">>
\* The mutant of the search: the letters are compared as typed.
ToLowerCaseAsTyped(cs) == cs
ToLowerCase(cs) ==
    [i \in DOMAIN cs |->
        CASE cs[i] = "A" -> "a" [] cs[i] = "B" -> "b" [] cs[i] = "C" -> "c"
          [] cs[i] = "D" -> "d" [] cs[i] = "E" -> "e" [] cs[i] = "N" -> "n"
          [] OTHER -> cs[i]]
Includes(hay, needle) ==
    \E i \in 0..(Len(hay) - Len(needle)) :
        SubSeq(hay, i + 1, i + Len(needle)) = needle

\* The row filter of the search (part_001:207-210).
MatchesSearch(row) ==
    LET term == ToLowerCase(Chars(repSearchTerm))
    IN  \/ Includes(ToLowerCase(Chars(row.name)), term)
        \/ Includes(ToLowerCase(Chars(row.employeeId)), term)

\* The mutant of the sort: the earlier date first.
CompareSectionsAscending(a, b) == DateValue(a) - DateValue(b)

\* The comparator of the sort of the sections, on their dates
\* (part_001:202): negative when a goes before b.
CompareSections(a, b) == DateValue(b) - DateValue(a)

\* The value of the useMemo: filter by date, join, group in a Map of Maps,
\* flatten, sort by date descending (the sort is stable), filter by the
\* search term and drop the empty sections.
BuildReport ==
    LET all == SelectSeq(repAttendance, InDateFilter)
        joined == SelectSeq(all, LAMBDA att : EmployeeMapGet(att.employeeId) # {})
        empOf(att) == CHOOSE emp \in EmployeeMapGet(att.employeeId) : TRUE
        keyOf(i) == <<DeptOf(empOf(joined[i])), joined[i].date>>
        keys == {keyOf(i) : i \in DOMAIN joined}
        firstDept(dept) == CHOOSE i \in DOMAIN joined :
                              /\ keyOf(i)[1] = dept
                              /\ \A j \in DOMAIN joined : keyOf(j)[1] = dept => i <= j
        firstKey(key) == CHOOSE i \in DOMAIN joined :
                              /\ keyOf(i) = key
                              /\ \A j \in DOMAIN joined : keyOf(j) = key => i <= j
        \* key p is pushed before key q when the Maps are flattened
        pushedBefore(p, q) ==
            \/ firstDept(p[1]) < firstDept(q[1])
            \/ p[1] = q[1] /\ firstKey(p) < firstKey(q)
        sortedBefore(p, q) ==
            \/ CompareSections(p[2], q[2]) < 0
            \/ CompareSections(p[2], q[2]) = 0 /\ pushedBefore(p, q)
        rank(p) == Cardinality({q \in keys : sortedBefore(q, p)}) + 1
        rowsOf(key) ==
            LET mine == SelectSeq(joined, LAMBDA att :
                            <<DeptOf(empOf(att)), att.date>> = key)
            IN  [i \in DOMAIN mine |-> ReportRow(mine[i], empOf(mine[i]))]
        sections == [n \in 1..Cardinality(keys) |->
                        LET key == CHOOSE p \in keys : rank(p) = n
                        IN  [department |-> key[1], date |-> key[2],
                             rows |-> rowsOf(key)]]
        searched == [n \in DOMAIN sections |->
                        [sections[n] EXCEPT !.rows = SelectSeq(@, MatchesSearch)]]
    IN  SelectSeq(searched, LAMBDA section : Len(section.rows) > 0)

\* The memo is computed again after one of its inputs was set.
RecomputeReport ==
    /\ reportData # BuildReport
    /\ reportData' = BuildReport
    /\ UNCHANGED <<dbVars, posts, gets, clock, pageVars, clsVars, geoVars, adminVars,
                   repAttendance, repEmployees, repStartDate, repEndDate,
                   repSearchTerm, csvContent, csvRead>>

\* The characters of a string of the export: a double quote, a comma and
\* a line break are one element each, the characters between them one
\* element together.
Pieces(str) ==
    CASE str = "" -> <<>>
      [] str = "Cruz, Ana" -> <<"Cruz", ",", " Ana">>
      [] str = "Ana\nCruz" -> <<"Ana", "\n", "Cruz">>
      [] str = "Ana \"Annie\" Cruz" -> <<"Ana ", "\"", "Annie", "\"", " Cruz">>
      [] str = "R, D" -> <<"R", ",", " D">>
      [] str = "The \"A\" Team" -> <<"The ", "\"", "A", "\"", " Team">>
      [] OTHER -> <<str>>

\* csvRows.join('\n') (part_001:251, 545).
RECURSIVE Join(_, _)
Join(lines, sep) ==
    IF lines = <<>> THEN <<>>
    ELSE IF Len(lines) = 1 THEN lines[1]
    ELSE lines[1] \o <<sep>> \o Join(Tail(lines), sep)

\* The template literal of a line: every value between two double quotes
\* as it is, the values separated by commas (part_001:246, 542).
CsvLine(values) ==
    Join([i \in DOMAIN values |-> <<"\"">> \o Pieces(values[i]) \o <<"\"">>], ",")

\* The lines of the rows of the sections, section after section
\* (part_001:243-249).
RECURSIVE ReportLines(_)
ReportLines(sections) ==
    IF sections = <<>> THEN <<>>
    ELSE LET section == Head(sections)
         IN  [i \in DOMAIN section.rows |->
                LET row == section.rows[i]
                IN  CsvLine(<<section.department, section.date, row.name,
                              row.employeeId, row.type, row.signIn, row.signOut,
                              row.status>>)]
             \o ReportLines(Tail(sections))

\* handleGenerate (part_001:216-273): the file of the whole report.
HandleGenerate ==
    /\ reportData = BuildReport
    /\ repStartDate # ""
    /\ Len(reportData) # 0
    /\ csvContent' =
          Join(<<Join(<<<<"Department">>, <<"Date">>, <<"Employee Name">>,
                        <<"Employee ID">>, <<"Employee Type">>, <<"Sign In Time">>,
                        <<"Sign Out Time">>, <<"Attendance Status">>>>, ",")>>
               \o ReportLines(reportData), "\n")
    /\ UNCHANGED <<dbVars, posts, gets, clock, pageVars, clsVars, geoVars, adminVars,
                   repAttendance, repEmployees, repStartDate, repEndDate,
                   repSearchTerm, reportData, csvRead>>

\* Export CSV of section n (part_001:537-559): the file of one section.
ExportSection(n) ==
    /\ reportData = BuildReport
    /\ n \in DOMAIN reportData
    /\ csvContent' =
          Join(<<Join(<<<<"Employee Name">>, <<"Employee ID">>, <<"Employee Type">>,
                        <<"Date">>, <<"Sign In Time">>, <<"Sign Out Time">>,
                        <<"Attendance Status">>>>, ",")>>
               \o [i \in DOMAIN reportData[n].rows |->
                      LET row == reportData[n].rows[i]
                      IN  CsvLine(<<row.name, row.employeeId, row.type, row.date,
                                    row.signIn, row.signOut, row.status>>)],
               "\n")
    /\ UNCHANGED <<dbVars, posts, gets, clock, pageVars, clsVars, geoVars, adminVars,
                   repAttendance, repEmployees, repStartDate, repEndDate,
                   repSearchTerm, reportData, csvRead>>

\* A reader of delimited text that has opened no file.
ReaderIdle ==
    [mode |-> "idle", text |-> <<>>, value |-> <<>>, line |-> <<>>, lines |-> <<>>]

\* The reader opens the file exported last.
OpenFile ==
    /\ csvContent # <<>>
    /\ csvRead.mode \in {"idle", "done"}
    /\ csvRead' = [ReaderIdle EXCEPT !.mode = "start", !.text = csvContent]
    /\ UNCHANGED <<dbVars, posts, gets, clock, pageVars, clsVars, geoVars, adminVars,
                   repAttendance, repEmployees, repStartDate, repEndDate,
                   repSearchTerm, reportData, csvContent>>

\* The reader reads the next character of its file: lines of values
\* separated by commas; a value that starts with a double quote runs to its
\* closing double quote, commas and line breaks in it are of the value, and
\* two double quotes in it are one double quote of the value.  At the end
\* of the text the last line is complete.
ReadNext ==
    /\ csvRead.mode \notin {"idle", "done"}
    /\ csvRead' =
          IF csvRead.text = <<>>
          THEN [csvRead EXCEPT !.mode = "done", !.value = <<>>, !.line = <<>>,
                               !.lines = @ \o <<csvRead.line \o <<csvRead.value>>>>]
          ELSE LET c == Head(csvRead.text)
                   st == [csvRead EXCEPT !.text = Tail(@)]
                   take(m) == [st EXCEPT !.mode = m, !.value = @ \o <<c>>]
               IN  CASE st.mode = "quoted" ->
                          IF c = "\"" THEN [st EXCEPT !.mode = "closed"]
                          ELSE take("quoted")
                     [] st.mode = "closed" /\ c = "\"" -> take("quoted")
                     [] st.mode = "start" /\ c = "\"" -> [st EXCEPT !.mode = "quoted"]
                     [] OTHER ->
                          IF c = ","
                          THEN [st EXCEPT !.mode = "start", !.value = <<>>,
                                          !.line = @ \o <<st.value>>]
                          ELSE IF c = "\n"
                          THEN [st EXCEPT !.mode = "start", !.value = <<>>,
                                          !.line = <<>>,
                                          !.lines = @ \o <<st.line \o <<st.value>>>>]
                          ELSE take("plain")
    /\ UNCHANGED <<dbVars, posts, gets, clock, pageVars, clsVars, geoVars, adminVars,
                   repAttendance, repEmployees, repStartDate, repEndDate,
                   repSearchTerm, reportData, csvContent>>

---------------------------------------------------------------------------
(* router.get('/'), router.put('/:id'), router.delete('/:id')
   (attendance.ts:42-85, 218-343), with a database that answers *)

\* The query of GET /attendance; SABSENT for a parameter not given.
Query(e, d, from, to, st) ==
    [employeeId |-> e, date |-> d, startDate |-> from, endDate |-> to,
     status |-> st]

\* The mutant of the filters: a status outside the enum selects nothing.
QueryMatchesAnyStatus(q, r) ==
    /\ q.employeeId # SABSENT => r.employee_id = q.employeeId
    /\ q.date # SABSENT => r.date = q.date
    /\ q.startDate # SABSENT => DateValue(r.date) >= DateValue(q.startDate)
    /\ q.endDate # SABSENT => DateValue(r.date) <= DateValue(q.endDate)
    /\ q.status # SABSENT => r.status = q.status

\* The filters added to the query (attendance.ts:53-71): status only when
\* it is one of the five.
QueryMatches(q, r) ==
    /\ q.employeeId # SABSENT => r.employee_id = q.employeeId
    /\ q.date # SABSENT => r.date = q.date
    /\ q.startDate # SABSENT => DateValue(r.date) >= DateValue(q.startDate)
    /\ q.endDate # SABSENT => DateValue(r.date) <= DateValue(q.endDate)
    /\ q.status \in StatusEnum => r.status = q.status

\* ORDER BY date DESC, check_in DESC (attendance.ts:50-51): r is before s,
\* or the two may come in either order; NULL is first in a descending
\* order.
OrderedBefore(r, s) ==
    \/ DateValue(r.date) > DateValue(s.date)
    \/ /\ r.date = s.date
       /\ \/ r.check_in = s.check_in
          \/ r.check_in = NULL
          \/ s.check_in # NULL /\ r.check_in > s.check_in

NoList == [pc |-> "none"]

\* GET /attendance with query q: the rows that match, in an order the
\* ORDER BY allows, mapped.
ListAttendance(q) ==
    /\ LET rows == {r \in attendance : QueryMatches(q, r)}
       IN  \E data \in [1..Cardinality(rows) -> rows] :
              /\ \A i, j \in DOMAIN data :
                    i < j => data[i] # data[j] /\ OrderedBefore(data[i], data[j])
              /\ listed' = [pc |-> "done", query |-> q,
                            data |-> [i \in DOMAIN data |-> MapAttendanceRow(data[i])]]
    /\ UNCHANGED <<dbVars, posts, gets, clock, pageVars, clsVars, geoVars,
                   repVars, admins>>

AdminSlots == 1..MaxAdmin
FreeAdmin == [pc |-> "free"]
FreeAdmins == {k \in AdminSlots : admins[k].pc = "free"}
NewAdmin == CHOOSE k \in FreeAdmins : \A j \in FreeAdmins : k <= j

\* The mutant of the update object: the date of the body is written too.
PutUpdateDataWithDate(r, b) ==
    [r EXCEPT
        !.date = b.date,
        !.employee_name = IF b.employeeName # SABSENT THEN b.employeeName ELSE @,
        !.check_in = IF b.checkIn # ABSENT THEN OrNull(b.checkIn) ELSE @,
        !.check_out = IF b.checkOut # ABSENT THEN OrNull(b.checkOut) ELSE @,
        !.status = IF b.status # SABSENT THEN b.status ELSE @,
        !.notes = IF b.notes # SABSENT THEN SOrNull(b.notes) ELSE @,
        !.check_in_image = IF b.checkInImage # SABSENT THEN SOrNull(b.checkInImage) ELSE @,
        !.check_out_image = IF b.checkOutImage # SABSENT THEN SOrNull(b.checkOutImage) ELSE @]

\* updateData of PUT (attendance.ts:240-250) applied to row r: a column
\* for every field of the body that is not undefined, and no column for
\* employeeId or date.
PutUpdateData(r, b) ==
    [r EXCEPT
        !.employee_name = IF b.employeeName # SABSENT THEN b.employeeName ELSE @,
        !.check_in = IF b.checkIn # ABSENT THEN OrNull(b.checkIn) ELSE @,
        !.check_out = IF b.checkOut # ABSENT THEN OrNull(b.checkOut) ELSE @,
        !.status = IF b.status # SABSENT THEN b.status ELSE @,
        !.notes = IF b.notes # SABSENT THEN SOrNull(b.notes) ELSE @,
        !.check_in_image = IF b.checkInImage # SABSENT THEN SOrNull(b.checkInImage) ELSE @,
        !.check_out_image = IF b.checkOutImage # SABSENT THEN SOrNull(b.checkOutImage) ELSE @]

\* Object.keys(updateData).length === 1 (attendance.ts:252): the body has
\* none of the fields that are written.
NoFieldsToUpdate(b) ==
    /\ b.employeeName = SABSENT /\ b.checkIn = ABSENT /\ b.checkOut = ABSENT
    /\ b.status = SABSENT /\ b.notes = SABSENT
    /\ b.checkInImage = SABSENT /\ b.checkOutImage = SABSENT

\* PUT /attendance/id arrives (attendance.ts:218-254): 400 when the body
\* does not parse (the partial schema keeps employeeId and date required
\* and gives status no default) or has nothing to write; otherwise the
\* handler is about to run its UPDATE.
PutReceive(id, b) ==
    /\ FreeAdmins # {}
    /\ admins' = [admins EXCEPT ![NewAdmin] =
            IF ~SchemaOk(b) \/ NoFieldsToUpdate(b)
            THEN [pc |-> "done", op |-> "put", id |-> id, body |-> b, res |-> 400]
            ELSE [pc |-> "update", op |-> "put", id |-> id, body |-> b, res |-> 0]]
    /\ UNCHANGED <<dbVars, posts, gets, clock, pageVars, clsVars, geoVars,
                   repVars, listed>>

\* UPDATE attendance SET updateData WHERE id (attendance.ts:256-263).
PutUpdate(k) ==
    /\ admins[k].pc = "update"
    /\ attendance' = {IF r.id = admins[k].id THEN PutUpdateData(r, admins[k].body)
                      ELSE r : r \in attendance}
    /\ admins' = [admins EXCEPT ![k].pc = "fetch"]
    /\ UNCHANGED <<nextId, posts, gets, clock, pageVars, clsVars, geoVars,
                   repVars, listed>>

\* The select of the updated row (attendance.ts:265-293): 404 when there
\* is none, otherwise 200 with the row.
PutFetch(k) ==
    /\ admins[k].pc = "fetch"
    /\ admins' = [admins EXCEPT
            ![k].pc = "done",
            ![k].res = IF \E r \in attendance : r.id = admins[k].id
                       THEN 200 ELSE 404]
    /\ UNCHANGED <<dbVars, posts, gets, clock, pageVars, clsVars, geoVars,
                   repVars, listed>>

\* DELETE /attendance/id arrives and selects the row (attendance.ts:301-
\* 313): 404 when there is none, otherwise the handler is about to run its
\* DELETE.
DeleteReceive(id) ==
    /\ FreeAdmins # {}
    /\ admins' = [admins EXCEPT ![NewAdmin] =
            IF \E r \in attendance : r.id = id
            THEN [pc |-> "delete", op |-> "delete", id |-> id, res |-> 0]
            ELSE [pc |-> "done", op |-> "delete", id |-> id, res |-> 404]]
    /\ UNCHANGED <<dbVars, posts, gets, clock, pageVars, clsVars, geoVars,
                   repVars, listed>>

\* DELETE FROM attendance WHERE id (attendance.ts:317-338).
DeleteRun(k) ==
    /\ admins[k].pc = "delete"
    /\ attendance' = {r \in attendance : r.id # admins[k].id}
    /\ admins' = [admins EXCEPT ![k].pc = "done", ![k].res = 200]
    /\ UNCHANGED <<nextId, posts, gets, clock, pageVars, clsVars, geoVars,
                   repVars, listed>>

---------------------------------------------------------------------------
(* Initial states *)

\* The page as mounted, before its effects run.
PageInit ==
    /\ clock = ClockStart
    /\ selectedDate = Today
    /\ todayAttendance = {}
    /\ showAttendanceDialog = FALSE
    /\ cameraIsOpen = FALSE
    /\ activeCapture = SNULL
    /\ capturedImage = SNULL
    /\ mediaStreamRef = 0
    /\ videoSrc = 0
    /\ liveStreams = {}
    /\ cams = [c \in CamSlots |-> FreeCam]
    /\ toast = ""
    /\ submits = 0

StoreInit ==
    /\ attendance = {}
    /\ nextId = 1
    /\ posts = [i \in Slots |-> FreePost]

ClsIdle ==
    /\ clsTime = NULL
    /\ clsStatus = SNULL
    /\ clsMinutes = 0

GeoIdle ==
    /\ geoPos = {}
    /\ geoDecision = SNULL

\* The report page as mounted, before its fetch has answered
\* (part_001:61-69).
RepIdle ==
    /\ repAttendance = <<>>
    /\ repEmployees = <<>>
    /\ repStartDate = Today
    /\ repEndDate = ""
    /\ repSearchTerm = ""
    /\ reportData = <<>>
    /\ csvContent = <<>>
    /\ csvRead = ReaderIdle

AdminIdle ==
    /\ admins = [k \in AdminSlots |-> FreeAdmin]
    /\ listed = NoList

---------------------------------------------------------------------------
(* Classifier harness: every time of day through the classifier *)

Hours == 0..23
Minutes == 0..59

ClsInit ==
    /\ StoreInit
    /\ PageInit
    /\ gets = [k \in GetSlots |-> FreeGet]
    /\ clsTime \in {TimeString(h, m) : h \in Hours, m \in Minutes}
    /\ clsStatus = SNULL
    /\ clsMinutes = 0
    /\ GeoIdle
    /\ AdminIdle
    /\ RepIdle

Classify ==
    /\ clsStatus = SNULL
    /\ clsStatus' = ClassifyCheckIn(clsTime)
    /\ clsMinutes' = MinutesLate(clsTime)
    /\ UNCHANGED <<dbVars, posts, gets, clock, pageVars, clsTime, geoVars, repVars,
                   adminVars>>

ClsNext == Classify
ClsSpec == ClsInit /\ [][ClsNext]_vars

---------------------------------------------------------------------------
(* Geofence harness: fixes around the anchor through the distance check *)

GeoGrid ==
    {[lat |-> InstitutionLat + i, lng |-> InstitutionLng + j] :
        i \in (0 - GeoSpan)..GeoSpan, j \in (0 - GeoSpan)..GeoSpan}

GeoInit ==
    /\ StoreInit
    /\ PageInit
    /\ gets = [k \in GetSlots |-> FreeGet]
    /\ ClsIdle
    /\ AdminIdle
    /\ RepIdle
    /\ geoPos \in {{pos} : pos \in GeoGrid}
    /\ geoDecision = SNULL

\* The check of handleOpenCamera on the fix (EmployeeDashboard.tsx:191-215):
\* the handler returns when the fix is outside and goes on otherwise.
GeoCheck ==
    /\ geoDecision = SNULL
    /\ geoDecision' = IF \E pos \in geoPos : OutsideGeofence(pos)
                      THEN "rejected" ELSE "allowed"
    /\ UNCHANGED <<dbVars, posts, gets, clock, pageVars, clsVars, geoPos, repVars,
                   adminVars>>

GeoNext == GeoCheck
GeoSpec == GeoInit /\ [][GeoNext]_vars

---------------------------------------------------------------------------
(* The report page after its fetch (part_001:76-107) *)

\* An employee as GET /employees?status=active returns it, and a record as
\* GET /attendance returns it.
EmployeeRef(id, dept, type) ==
    [employeeId |-> id, fullName |-> EmployeeName[id], department |-> dept,
     employmentType |-> type]
RepRecord(e, d, ci, co, st) ==
    [employeeId |-> e, date |-> d, checkIn |-> ci, checkOut |-> co, status |-> st]

\* One record of every check-in time and stored status, its employee in
\* the directory.
RowInit ==
    /\ StoreInit
    /\ PageInit
    /\ gets = [k \in GetSlots |-> FreeGet]
    /\ ClsIdle
    /\ GeoIdle
    /\ AdminIdle
    /\ repAttendance \in
          {<<RepRecord("E1", Today, ci, ABSENT, st)>> :
              ci \in {TimeString(h, m) : h \in Hours, m \in Minutes} \cup {ABSENT},
              st \in StatusEnum}
    /\ repEmployees = <<EmployeeRef("E1", "IT", "Regular")>>
    /\ repStartDate = Today
    /\ repEndDate = ""
    /\ repSearchTerm = ""
    /\ reportData = <<>>
    /\ csvContent = <<>>
    /\ csvRead = ReaderIdle

RowSpec == RowInit /\ [][RecomputeReport]_vars

\* Directories: E2 may be missing, in E1's department, in another, or in
\* none; E9 is never in the directory.
Directories ==
    {<<EmployeeRef("E1", "IT", "Regular")>>}
    \cup {<<EmployeeRef("E1", "IT", "Regular"), EmployeeRef("E2", dept, "Part-time")>> :
            dept \in {"IT", "HR", ""}}

\* Records as the capture workflow writes them.
RepRecords ==
    {RepRecord(e, d, ci, ABSENT, ClassifyCheckIn(ci)) :
        e \in {"E1", "E2", "E9"}, d \in Dates,
        ci \in {TimeString(8, 0), TimeString(8, 20)}}

\* Lists GET /attendance can return: one record per (employee, date),
\* ordered by date and then check_in, both descending (attendance.ts:68-69).
FetchedLists ==
    UNION {{list \in [1..n -> RepRecords] :
              \A i, j \in 1..n : i < j =>
                /\ <<list[i].employeeId, list[i].date>>
                      # <<list[j].employeeId, list[j].date>>
                /\ \/ DateValue(list[i].date) > DateValue(list[j].date)
                   \/ /\ list[i].date = list[j].date
                      /\ list[i].checkIn >= list[j].checkIn} :
           n \in 0..MaxRecords}

ReportInit ==
    /\ StoreInit
    /\ PageInit
    /\ gets = [k \in GetSlots |-> FreeGet]
    /\ ClsIdle
    /\ GeoIdle
    /\ AdminIdle
    /\ repAttendance \in FetchedLists
    /\ repEmployees \in Directories
    /\ \E range \in {<<Today, "">>, <<Yesterday, "">>, <<Yesterday, Today>>,
                       <<Yesterday, Yesterday>>, <<Today, Today>>, <<"", "">>} :
          repStartDate = range[1] /\ repEndDate = range[2]
    /\ repSearchTerm \in {"", "an", "AN", "e2"}
    /\ reportData = <<>>
    /\ csvContent = <<>>
    /\ csvRead = ReaderIdle

ReportSpec == ReportInit /\ [][RecomputeReport]_vars

\* The export: lists of one or two records of today of E1 and E2, E1's name and
\* department free text (employees.ts:37, 307) with or without a comma, a
\* line break or double quotes.
CsvInit ==
    /\ StoreInit
    /\ PageInit
    /\ gets = [k \in GetSlots |-> FreeGet]
    /\ ClsIdle
    /\ GeoIdle
    /\ AdminIdle
    /\ repAttendance \in
          {list \in FetchedLists :
              /\ Len(list) \in 1..2
              /\ \A i \in DOMAIN list :
                    list[i].employeeId \in Employees /\ list[i].date = Today}
    /\ \E name \in {"Ana Cruz", "Cruz, Ana", "Ana\nCruz", "Ana \"Annie\" Cruz"},
          dept \in {"IT", "R, D", "The \"A\" Team"} :
          repEmployees = <<[EmployeeRef("E1", dept, "Regular") EXCEPT !.fullName = name],
                           EmployeeRef("E2", "IT", "Part-time")>>
    /\ repStartDate = Today
    /\ repEndDate = ""
    /\ repSearchTerm = ""
    /\ reportData = <<>>
    /\ csvContent = <<>>
    /\ csvRead = ReaderIdle

CsvNext ==
    \/ RecomputeReport
    \/ HandleGenerate
    \/ \E n \in 1..MaxRecords : ExportSection(n)
    \/ OpenFile
    \/ ReadNext

CsvSpec == CsvInit /\ [][CsvNext]_vars

---------------------------------------------------------------------------
(* The store under GET, PUT and DELETE *)

\* Rows the store can hold: id 2 is E2's of today, the last id E1's of
\* yesterday, the others E1's of today; present at 08:00, late at 08:20, or
\* on leave without a check-in.
SeedRow(id, ci, st) ==
    Row(id, IF id = 2 THEN "E2" ELSE "E1",
        EmployeeName[IF id = 2 THEN "E2" ELSE "E1"],
        IF id > 2 THEN Yesterday ELSE Today, ci, NULL, st, SNULL, SNULL, SNULL)
SeedStores(ids) ==
    {tbl \in SUBSET {SeedRow(id, p[1], p[2]) :
                        id \in ids,
                        p \in {<<TimeString(8, 0), "present">>,
                               <<TimeString(8, 20), "late">>, <<NULL, "leave">>}} :
        \A r, t \in tbl :
            (r.id = t.id \/ (r.employee_id = t.employee_id /\ r.date = t.date))
                => r = t}

ListInit ==
    /\ attendance \in SeedStores(1..(MaxId + 1))
    /\ nextId = MaxId + 2
    /\ posts = [i \in Slots |-> FreePost]
    /\ PageInit
    /\ gets = [k \in GetSlots |-> FreeGet]
    /\ ClsIdle
    /\ GeoIdle
    /\ AdminIdle
    /\ RepIdle

ListNext ==
    \E e \in {SABSENT, "E1"}, d \in {SABSENT, Today}, from \in {SABSENT, Today},
       to \in {SABSENT, Yesterday}, st \in {SABSENT, "late", "Late"} :
        ListAttendance(Query(e, d, from, to, st))

ListSpec == ListInit /\ [][ListNext]_vars

\* Bodies of PUT: employeeId and date of another record, a check-in left
\* out, null or 08:20, a status left out or 'leave'; and a body without
\* employeeId.
PutBodies ==
    {[Body("E2", Yesterday, ci, ABSENT, st, SABSENT, SABSENT, SABSENT)
         EXCEPT !.employeeName = SABSENT, !.employeeId = e] :
        ci \in {ABSENT, NULL, TimeString(8, 20)}, st \in {SABSENT, "leave"},
        e \in {"E2", ""}}

AdminInit ==
    /\ attendance \in SeedStores(1..MaxId)
    /\ nextId = MaxId + 1
    /\ posts = [i \in Slots |-> FreePost]
    /\ PageInit
    /\ gets = [k \in GetSlots |-> FreeGet]
    /\ ClsIdle
    /\ GeoIdle
    /\ AdminIdle
    /\ RepIdle

AdminNext ==
    \/ \E id \in 1..(MaxId + 1), b \in PutBodies : PutReceive(id, b)
    \/ \E k \in AdminSlots : PutUpdate(k) \/ PutFetch(k) \/ DeleteRun(k)
    \/ \E id \in 1..(MaxId + 1) : DeleteReceive(id)

AdminSpec == AdminInit /\ [][AdminNext]_vars

---------------------------------------------------------------------------
(* The store under direct callers, with a database that answers *)

Init ==
    /\ StoreInit
    /\ PageInit
    /\ gets = [k \in GetSlots |-> FreeGet]
    /\ ClsIdle
    /\ GeoIdle
    /\ AdminIdle
    /\ RepIdle

Next ==
    \/ \E b \in ApiBodies : ApiPost(b)
    \/ \E i \in Slots : PostSelect(i)
    \/ \E i \in Slots : PostUpdate(i)
    \/ \E i \in Slots : PostInsert(i)
    \/ \E i \in Slots : ApiResponse(i)

Spec == Init /\ [][Next]_vars

---------------------------------------------------------------------------
(* The capture workflow of the user against the store *)

\* On mount the effect of :142-173 has sent its first fetch.
FlowInit ==
    /\ StoreInit
    /\ PageInit
    /\ gets = [k \in GetSlots |->
                IF k = 1 THEN [pc |-> "sent", kind |-> "poll", date |-> Today,
                               data |-> {}]
                ELSE FreeGet]
    /\ ClsIdle
    /\ GeoIdle
    /\ AdminIdle
    /\ RepIdle

FlowNext ==
    \/ OpenAttendanceDialog
    \/ CloseAttendanceDialog
    \/ \E d \in Dates : ChangeDate(d)
    \/ PollTick
    \/ \E k \in GetSlots : GetServe(k)
    \/ \E k \in GetSlots : GetDeliver(k)
    \/ \E type \in {"checkIn", "checkOut"} : OpenCameraAlone(type)
    \/ \E c \in CamSlots : LocationError(c)
    \/ \E c \in CamSlots : \E pos \in DevicePositions : LocationFix(c, pos)
    \/ \E c \in CamSlots : CameraGranted(c)
    \/ \E c \in CamSlots : CameraDenied(c)
    \/ HandleCapturePhoto
    \/ CancelCamera
    \/ HandleSubmitAttendance
    \/ \E i \in Slots : SubmitOk(i)
    \/ \E i \in Slots : SubmitFailed(i)
    \/ \E i \in Slots : SubmitNetworkError(i)
    \/ \E i \in Slots : PostSelect(i)
    \/ \E i \in Slots : PostUpdate(i)
    \/ \E i \in Slots : PostInsert(i)
    \/ \E i \in Slots : PostDbError(i)
    \/ Tick

FlowSpec == FlowInit /\ [][FlowNext]_vars

---------------------------------------------------------------------------
(* The camera of the capture workflow, with presses that may overlap *)

CamNext ==
    \/ OpenAttendanceDialog
    \/ CloseAttendanceDialog
    \/ \E k \in GetSlots : GetServe(k)
    \/ \E k \in GetSlots : GetDeliver(k)
    \/ \E type \in {"checkIn", "checkOut"} : HandleOpenCamera(type)
    \/ \E c \in CamSlots : LocationError(c)
    \/ \E c \in CamSlots : \E pos \in DevicePositions : LocationFix(c, pos)
    \/ \E c \in CamSlots : CameraGranted(c)
    \/ \E c \in CamSlots : CameraDenied(c)
    \/ HandleCapturePhoto
    \/ CancelCamera

CamSpec == FlowInit /\ [][CamNext]_vars

---------------------------------------------------------------------------
(* Claims about the store under direct callers (Spec) *)

Running(i) == posts[i].pc # "free"
SamePair(i, j) ==
    /\ posts[i].body.employeeId = posts[j].body.employeeId
    /\ posts[i].body.date = posts[j].body.date
\* instance i has taken the insert branch: its existence query found no row
TookInsert(i) == posts[i].pc \in {"write", "done"} /\ posts[i].res # 400
                    /\ posts[i].existing = NULL

\* C1: after any interleaving of create/upsert requests, at most one row
\* exists for every (employeeId, date) pair.
C1_OneRecordPerPair ==
    \A e \in Employees : \A d \in {Yesterday, Today} :
        Cardinality(RowsOf(attendance, e, d)) <= 1

\* C1 witness: two requests raced on one pair, both took the insert branch,
\* and the second insert has been refused.
C1_Witness ==
    \E i, j \in Slots :
        /\ i # j /\ posts[i].pc = "done" /\ posts[j].pc = "done"
        /\ posts[i].res = 201 /\ posts[j].res = 500
        /\ TookInsert(i) /\ TookInsert(j) /\ SamePair(i, j)
        /\ RowsOf(attendance, posts[i].body.employeeId, posts[i].body.date) # {}

\* C2 (as claimed): two requests for one pair that run while the pair has
\* no row never both take the insert branch, neither ends in an error, and
\* once both are done the one row holds the event fields of both.
C2_SingleAtomicUpsert ==
    \A i, j \in Slots :
        (i # j /\ Running(i) /\ Running(j) /\ posts[i].res # 400
            /\ posts[j].res # 400 /\ SamePair(i, j) /\ TookInsert(i)) =>
            /\ ~TookInsert(j)
            /\ posts[i].res # 500 /\ posts[j].res # 500
            /\ (posts[i].pc = "done" /\ posts[j].pc = "done") =>
                  \E r \in attendance :
                    \A k \in {i, j} :
                        /\ posts[k].body.checkIn # ABSENT =>
                              r.check_in = posts[k].body.checkIn
                        /\ posts[k].body.checkOut # ABSENT =>
                              r.check_out = posts[k].body.checkOut

\* C7 (as claimed): a row created by a request that carries a checkIn time
\* has the status the classifier gives that time, whatever status the
\* request carried.
C7_StoreClassifies ==
    [][\A i \in Slots :
        (PostInsert(i) /\ posts[i].body.checkIn \notin {ABSENT, NULL}
            /\ posts'[i].res = 201) =>
            \A r \in attendance' \ attendance :
                r.status = ClassifyCheckIn(posts[i].body.checkIn)]_vars

---------------------------------------------------------------------------
(* Claims about the classifier (ClsSpec) *)

\* C6: the classifier returns late exactly when the check-in is at least
\* one whole minute after the expected arrival 08:11, present otherwise;
\* 08:11 is present, 08:12 is late by 1 minute, earlier times are present.
C6_LateIffAfterThreshold ==
    clsStatus # SNULL =>
        /\ clsStatus = IF MinuteOfDay(clsTime) - (8 * 60 + 11) > 0
                       THEN "late" ELSE "present"
        /\ clsMinutes = MinuteOfDay(clsTime) - (8 * 60 + 11)
        /\ clsTime = 811 => clsStatus = "present"
        /\ clsTime = 812 => clsStatus = "late" /\ clsMinutes = 1
        /\ clsTime < 811 => clsStatus = "present"

\* C6 witness: the tie 08:11 has been classified.
C6_Witness == clsTime = 811 /\ clsStatus = "present"

---------------------------------------------------------------------------
(* Claims about the capture workflow against the store (FlowSpec) *)

CheckInEvent(b) == b.checkIn \notin {ABSENT, NULL} /\ b.checkOut = ABSENT
CheckOutEvent(b) == b.checkOut \notin {ABSENT, NULL} /\ b.checkIn = ABSENT
\* the row that instance i found, before and after the step
Found(i) == {r \in attendance : r.id = posts[i].existing}
After(r) == {q \in attendance' : q.id = r.id}

\* C3: on an existing record a checkOut event leaves check_in and
\* check_in_image as they were, and a checkIn event leaves check_out and
\* check_out_image as they were.
C3_OtherEventUntouched ==
    [][\A i \in Slots : PostUpdate(i) =>
        \A r \in Found(i) :
            /\ After(r) # {}
            /\ CheckOutEvent(posts[i].body) =>
                 \A q \in After(r) : /\ q.check_in = r.check_in
                                     /\ q.check_in_image = r.check_in_image
            /\ CheckInEvent(posts[i].body) =>
                 \A q \in After(r) : /\ q.check_out = r.check_out
                                     /\ q.check_out_image = r.check_out_image]_vars

\* C3 witness: a checkOut has been recorded on a record that had a checkIn,
\* and the checkIn and its image are still there.
C3_Witness ==
    \E r \in attendance :
        /\ r.check_in # NULL /\ r.check_in_image = Frame
        /\ r.check_out # NULL /\ r.check_out_image = Frame
        /\ \E i \in Slots : /\ posts[i].pc = "done" /\ posts[i].res = 201
                            /\ posts[i].existing = r.id
                            /\ CheckOutEvent(posts[i].body)

\* C4 (as claimed): storing a checkOut event of the workflow on an existing
\* record leaves the record's status as it was.
C4_CheckOutKeepsStatus ==
    [][\A i \in Slots : (PostUpdate(i) /\ CheckOutEvent(posts[i].body)) =>
        \A r \in Found(i) : \A q \in After(r) : q.status = r.status]_vars

\* C5: an event submitted for a pair that has no record creates exactly one
\* record, with the named event's time and image from the request, the
\* other event's time and image unset, and a status that is the
\* classifier's verdict for a checkIn (late iff after 08:11) and 'present'
\* for a checkOut.
C5_CreateOnlyNamedEvent ==
    [][\A i \in Slots :
        (PostInsert(i) /\ RowsOf(attendance, posts[i].body.employeeId,
                                 posts[i].body.date) = {}) =>
        LET b == posts[i].body
            new == attendance' \ attendance
        IN  /\ Cardinality(new) = 1
            /\ attendance \subseteq attendance'
            /\ Cardinality(RowsOf(attendance', b.employeeId, b.date)) = 1
            /\ \A r \in new :
                /\ r.employee_id = b.employeeId /\ r.date = b.date
                /\ CheckInEvent(b) =>
                     /\ r.check_in = b.checkIn /\ r.check_in_image = b.checkInImage
                     /\ r.check_in_image # SNULL
                     /\ r.check_out = NULL /\ r.check_out_image = SNULL
                     /\ r.status = IF MinuteOfDay(b.checkIn) > 8 * 60 + 11
                                   THEN "late" ELSE "present"
                /\ CheckOutEvent(b) =>
                     /\ r.check_out = b.checkOut /\ r.check_out_image = b.checkOutImage
                     /\ r.check_out_image # SNULL
                     /\ r.check_in = NULL /\ r.check_in_image = SNULL
                     /\ r.status = "present"
                /\ CheckInEvent(b) \/ CheckOutEvent(b)]_vars

\* C5 witness: a late check-in has created the day's record.
C5_Witness ==
    \E r \in attendance :
        /\ r.check_in = TimeString(8, 12) /\ r.check_in_image = Frame
        /\ r.check_out = NULL /\ r.check_out_image = SNULL /\ r.status = "late"
        /\ \E i \in Slots : /\ posts[i].pc = "done" /\ posts[i].res = 201
                            /\ posts[i].existing = NULL

\* C8 (as claimed): no sequence of workflow submissions leaves a record
\* with a checkOut and no checkIn.
C8_NoCheckOutWithoutCheckIn ==
    \A r \in attendance : r.check_out # NULL => r.check_in # NULL

\* C9 (as claimed): an event that a record already holds is never altered
\* by a later submission of the workflow: its time and image stay.
C9_RecordedEventNeverAltered ==
    [][\A r \in attendance : \A q \in After(r) :
        /\ r.check_in # NULL =>
             q.check_in = r.check_in /\ q.check_in_image = r.check_in_image
        /\ r.check_out # NULL =>
             q.check_out = r.check_out /\ q.check_out_image = r.check_out_image]_vars

\* C10: a run of handleOpenCamera asks for the camera only out of its
\* location check and only with a fix at most 0.1 km from the anchor; a run
\* whose location fails or lies outside ends with a location error, asks
\* for no camera and leaves the camera dialog, the streams and the capture
\* state as they were.
C10_CameraOnlyAfterGeofence ==
    [][\A c \in CamSlots :
        /\ (cams'[c].pc = "camera" /\ cams[c].pc # "camera") =>
              /\ cams[c].pc = "locating"
              /\ \E pos \in cams'[c].position :
                    DistanceSqCm(pos.lat, pos.lng) <= RadiusCm * RadiusCm
        /\ liveStreams' \ liveStreams # {} => \E d \in CamSlots : cams[d].pc = "camera"
        /\ (\/ LocationError(c)
            \/ \E pos \in DevicePositions :
                 /\ DistanceSqCm(pos.lat, pos.lng) > RadiusCm * RadiusCm
                 /\ cams[c].pc = "locating" /\ cams'[c].pc = "free"
                 /\ LocationFix(c, pos)) =>
              /\ cams'[c].pc = "free"
              /\ toast' = "Location Error"
              /\ UNCHANGED camVars]_vars

\* C10 witness: a location check has just failed with the workflow idle:
\* dialog closed, no run left, no stream.
C10_Witness ==
    /\ toast = "Location Error"
    /\ ~cameraIsOpen /\ liveStreams = {} /\ mediaStreamRef = 0
    /\ \A c \in CamSlots : cams[c].pc = "free"

---------------------------------------------------------------------------
(* Claims about cancelling and finishing a capture (FlowSpec, CamSpec) *)

FlowPostSent(i) ==
    posts[i].pc = "free" /\ posts'[i].pc # "free" /\ posts'[i].src = "flow"

\* C12: cancelling the camera dialog, with the camera still being acquired,
\* open, or a frame captured, issues no request and leaves the table as it
\* was, drops the frame and closes the dialog; and from there a request of
\* the page needs a frame, a frame needs the camera dialog open, and the
\* dialog opens only for a new press that passed its location check.
C12_CancelLeavesStore ==
    [][/\ CancelCamera =>
            /\ UNCHANGED <<attendance, nextId, posts>>
            /\ capturedImage' = SNULL /\ ~cameraIsOpen'
       /\ (\E i \in Slots : FlowPostSent(i)) => capturedImage # SNULL
       /\ (capturedImage = SNULL /\ capturedImage' # SNULL) => cameraIsOpen
       /\ (~cameraIsOpen /\ cameraIsOpen') =>
            \E c \in CamSlots : cams[c].pc = "locating" /\ cams'[c].pc = "camera"
       /\ attendance' # attendance =>
            \E i \in Slots : posts[i].pc = "write" /\ posts'[i].pc = "done"]_vars

\* C12 witness: the dialog was cancelled while the camera was still being
\* acquired, and nothing has been sent or stored.
C12_Witness ==
    /\ ~cameraIsOpen /\ capturedImage = SNULL /\ activeCapture = SNULL
    /\ \E c \in CamSlots : cams[c].pc = "camera"
    /\ submits = 0 /\ attendance = {}
    /\ \A i \in Slots : posts[i].pc = "free"

\* C13 (as claimed): whenever the workflow is idle (camera dialog closed, no
\* event kind active, no press still running) no camera stream is live and
\* no frame is held.
C13_IdleHoldsNothing ==
    (~cameraIsOpen /\ activeCapture = SNULL
        /\ \A c \in CamSlots : cams[c].pc = "free") =>
        /\ liveStreams = {} /\ mediaStreamRef = 0
        /\ capturedImage = SNULL

\* C14 (as claimed): at most one camera stream of the user is live.
C14_AtMostOneStream == Cardinality(liveStreams) <= 1

C26_WorkflowWritesPresentOrLate ==
    /\ \A i \in Slots :
          (posts[i].pc # "free" /\ posts[i].src = "flow") =>
              posts[i].body.status \in {"present", "late"}
    /\ \A r \in attendance : r.status \in {"present", "late"}

\* C26 witness: the workflow has stored a check-out, with the status it
\* sent, on a record that holds a check-in.
C26_Witness ==
    \E r \in attendance :
        /\ r.check_in # NULL /\ r.check_out # NULL
        /\ \E i \in Slots : /\ posts[i].pc = "done" /\ posts[i].src = "flow"
                            /\ posts[i].res = 201 /\ posts[i].existing = r.id
                            /\ posts[i].body.status = r.status

\* C27 (as claimed): while a captured frame is held no camera stream is
\* open, also when Capture was pressed before getUserMedia had resolved.
C27_FrameHeldNoStream ==
    capturedImage # SNULL => liveStreams = {}

\* C28 (as claimed): when getUserMedia rejects, the camera dialog is
\* closed, no event kind is active, no captured frame is left and the store
\* is as it was.
C28_CameraDeniedBackToIdle ==
    [][\A c \in CamSlots : CameraDenied(c) =>
        /\ ~cameraIsOpen' /\ activeCapture' = SNULL /\ capturedImage' = SNULL
        /\ attendance' = attendance]_vars

\* C29 (as claimed): with the attendance dialog open and no fetch and no
\* submit outstanding, the record shown is the stored record of the user
\* for the selected date, or none when there is none.
C29_ShownIsOfSelectedDate ==
    (/\ showAttendanceDialog
     /\ \A k \in GetSlots : gets[k].pc = "free"
     /\ \A i \in Slots : posts[i].pc = "free") =>
        todayAttendance =
            {TodayAttendanceOf(att) : att \in ListFirst(attendance, User, selectedDate)}

---------------------------------------------------------------------------
(* Claims about the report (RowSpec, ReportSpec) *)

\* the memo holds the report of the page's present inputs
Built == reportData = BuildReport
Resolves(id) == \E j \in DOMAIN repEmployees : repEmployees[j].employeeId = id
\* the places <<section, row>> of the report
Places ==
    {pl \in (DOMAIN reportData) \X (1..MaxRecords) :
        pl[2] \in DOMAIN reportData[pl[1]].rows}
RowAt(pl) == reportData[pl[1]].rows[pl[2]]
\* the row at pl was made from record att
RowOfRecord(pl, att) ==
    /\ RowAt(pl).employeeId = att.employeeId
    /\ reportData[pl[1]].date = att.date
LateText(checkIn) ==
    "Late (" \o ToString(MinuteOfDay(checkIn) - (8 * 60 + 11)) \o " mins)"

\* C17 (as claimed): a record whose check-in is N > 0 minutes after 08:11
\* is shown as 'Late (N mins)' whatever its stored status.
C17_LateWhateverTheStatus ==
    \A i \in DOMAIN repAttendance :
        LET att == repAttendance[i]
        IN  (/\ Built /\ InDateFilter(att) /\ Resolves(att.employeeId)
             /\ att.checkIn # ABSENT
             /\ MinuteOfDay(att.checkIn) > 8 * 60 + 11) =>
            \E pl \in Places :
                RowOfRecord(pl, att) /\ RowAt(pl).status = LateText(att.checkIn)

C19_JoinKeepsResolvedOnly ==
    (Built /\ repSearchTerm = "") =>
        /\ \A i \in DOMAIN repAttendance :
              LET att == repAttendance[i]
              IN  Cardinality({pl \in Places : RowOfRecord(pl, att)}) =
                    IF InDateFilter(att) /\ Resolves(att.employeeId) THEN 1 ELSE 0
        /\ \A pl \in Places : \E i \in DOMAIN repAttendance :
              /\ RowOfRecord(pl, repAttendance[i])
              /\ InDateFilter(repAttendance[i])
              /\ Resolves(repAttendance[i].employeeId)
              /\ RowAt(pl).signIn = FormatTime(repAttendance[i].checkIn)

\* C19 witness: a report with rows, built from a list that also holds a
\* record of the date whose employee is not in the directory.
C19_Witness ==
    /\ Built /\ repSearchTerm = "" /\ Places # {}
    /\ \E i \in DOMAIN repAttendance :
          /\ InDateFilter(repAttendance[i])
          /\ ~Resolves(repAttendance[i].employeeId)

\* C20 (as claimed): no two sections have the same (department, date), and
\* every row is in the section of its employee's department and its
\* record's date.
C20_SectionIsEmployeeDepartment ==
    Built =>
        /\ \A m, n \in DOMAIN reportData :
              (reportData[m].department = reportData[n].department
                 /\ reportData[m].date = reportData[n].date) => m = n
        /\ \A pl \in Places :
              /\ \E j \in DOMAIN repEmployees :
                    /\ repEmployees[j].employeeId = RowAt(pl).employeeId
                    /\ repEmployees[j].department = reportData[pl[1]].department
              /\ \E i \in DOMAIN repAttendance : RowOfRecord(pl, repAttendance[i])

\* C20 (amended): no two sections have the same (department, date), and
\* every row is in the section of its record's date and of its employee's
\* department, or of 'Unassigned' when the employee has no department.
C20_GroupedByDepartmentAndDate ==
    Built =>
        /\ \A m, n \in DOMAIN reportData :
              (reportData[m].department = reportData[n].department
                 /\ reportData[m].date = reportData[n].date) => m = n
        /\ \A pl \in Places :
              /\ \E j \in DOMAIN repEmployees :
                    /\ repEmployees[j].employeeId = RowAt(pl).employeeId
                    /\ reportData[pl[1]].department =
                          IF repEmployees[j].department = "" THEN "Unassigned"
                          ELSE repEmployees[j].department
              /\ \E i \in DOMAIN repAttendance : RowOfRecord(pl, repAttendance[i])

\* C20 witness: a report with the section of a department and the section
\* 'Unassigned' on one date.
C20_Witness ==
    /\ Built
    /\ \E m, n \in DOMAIN reportData :
          /\ reportData[m].department = "IT"
          /\ reportData[n].department = "Unassigned"
          /\ reportData[m].date = reportData[n].date

\* C21: with no search term, the report holds exactly the records of the
\* requested dates (of the employees in the directory): with a start date
\* alone, those whose date equals it; with a start and an end date, those
\* with start <= date <= end, both ends included.
C21_DateFilterExact ==
    (Built /\ repSearchTerm = "" /\ repStartDate # "") =>
        \A i \in DOMAIN repAttendance :
            LET att == repAttendance[i]
                requested ==
                    IF repEndDate = "" THEN att.date = repStartDate
                    ELSE /\ DateValue(repStartDate) <= DateValue(att.date)
                         /\ DateValue(att.date) <= DateValue(repEndDate)
            IN  Resolves(att.employeeId) =>
                    ((\E pl \in Places : RowOfRecord(pl, att)) <=> requested)

\* C21 witness: the report of the range from yesterday to today holds a
\* record of each end of the range.
C21_Witness ==
    /\ Built /\ repSearchTerm = ""
    /\ repStartDate = Yesterday /\ repEndDate = Today
    /\ \E m, n \in DOMAIN reportData :
          reportData[m].date = Yesterday /\ reportData[n].date = Today

\* C22: the sections are in the order of their dates, the latest first,
\* and the rows of a section are in the order of their records in the
\* fetched list.
C22_LatestFirstRowsInOrder ==
    Built =>
        /\ \A m, n \in DOMAIN reportData :
              m < n => DateValue(reportData[m].date) >= DateValue(reportData[n].date)
        /\ \A pl, pk \in Places :
              (pl[1] = pk[1] /\ pl[2] < pk[2]) =>
                  \E i, j \in DOMAIN repAttendance :
                      /\ i < j
                      /\ RowOfRecord(pl, repAttendance[i])
                      /\ RowOfRecord(pk, repAttendance[j])

\* C22 witness: a report whose sections were not pushed in the order of
\* their dates: a department of two dates, and between its sections the
\* section of another department.
C22_Witness ==
    /\ Built /\ Len(reportData) = 3
    /\ reportData[1].department = reportData[3].department
    /\ reportData[2].department # reportData[1].department
    /\ reportData[1].date = Today /\ reportData[2].date = Today
    /\ reportData[3].date = Yesterday

\* the search term is in the name or the id of employee id, whatever the
\* case of the letters: 'an' and 'AN' are in 'Ana Cruz', 'e2' is in 'E2'
TermFound(id) ==
    CASE repSearchTerm = "" -> TRUE
      [] repSearchTerm \in {"an", "AN"} -> id = "E1"
      [] repSearchTerm = "e2" -> id = "E2"

\* C23: of the records that pass the date filter and the join, the report
\* holds exactly those whose employee's name or id contains the search
\* term, whatever the case of the letters; and it has no section without
\* rows.
C23_SearchKeepsMatches ==
    Built =>
        /\ \A i \in DOMAIN repAttendance :
              LET att == repAttendance[i]
              IN  (InDateFilter(att) /\ Resolves(att.employeeId)) =>
                      ((\E pl \in Places : RowOfRecord(pl, att))
                          <=> TermFound(att.employeeId))
        /\ \A n \in DOMAIN reportData : Len(reportData[n].rows) > 0

\* C23 witness: the search for 'AN' keeps the rows of Ana Cruz and drops
\* the section that held only a row of Ben Dy.
C23_Witness ==
    /\ Built /\ repSearchTerm = "AN" /\ Places # {}
    /\ \A pl \in Places : RowAt(pl).name = "Ana Cruz"
    /\ \E i \in DOMAIN repAttendance :
          /\ repAttendance[i].employeeId = "E2"
          /\ InDateFilter(repAttendance[i])
          /\ \E j \in DOMAIN repEmployees :
                /\ repEmployees[j].employeeId = "E2"
                /\ repEmployees[j].department = "HR"

---------------------------------------------------------------------------
(* Claims about the export (CsvSpec) *)

\* the values of the rows of the report, and of the rows of section n
RECURSIVE ReportValues(_)
ReportValues(sections) ==
    IF sections = <<>> THEN <<>>
    ELSE LET section == Head(sections)
         IN  [i \in DOMAIN section.rows |->
                LET row == section.rows[i]
                IN  <<Pieces(section.department), Pieces(section.date),
                      Pieces(row.name), Pieces(row.employeeId), Pieces(row.type),
                      Pieces(row.signIn), Pieces(row.signOut), Pieces(row.status)>>]
             \o ReportValues(Tail(sections))
SectionValues(n) ==
    [i \in DOMAIN reportData[n].rows |->
        LET row == reportData[n].rows[i]
        IN  <<Pieces(row.name), Pieces(row.employeeId), Pieces(row.type),
              Pieces(row.date), Pieces(row.signIn), Pieces(row.signOut),
              Pieces(row.status)>>]

\* C24 (as claimed): the text of an export, read back, has under its line
\* of column names one line per exported row, with the values of that row,
\* whatever the names and departments.
C24_ExportReadsBack ==
    csvRead.mode = "done" =>
        \/ csvRead.lines =
              <<<<<<"Department">>, <<"Date">>, <<"Employee Name">>,
                  <<"Employee ID">>, <<"Employee Type">>, <<"Sign In Time">>,
                  <<"Sign Out Time">>, <<"Attendance Status">>>>>>
              \o ReportValues(reportData)
        \/ \E n \in DOMAIN reportData :
              csvRead.lines =
                <<<<<<"Employee Name">>, <<"Employee ID">>, <<"Employee Type">>,
                    <<"Date">>, <<"Sign In Time">>, <<"Sign Out Time">>,
                    <<"Attendance Status">>>>>>
                \o SectionValues(n)

---------------------------------------------------------------------------
(* Claims about the list, the update and the delete (ListSpec, AdminSpec) *)

\* the response is the stored records that satisfy the filters of the
\* query, each once, the later date first; a status that is none of the
\* five is a filter when strict, and is no filter otherwise
ListedAre(strict) ==
    listed.pc = "done" =>
        LET q == listed.query
            data == listed.data
            wanted ==
                {r \in attendance :
                    /\ q.employeeId # SABSENT => r.employee_id = q.employeeId
                    /\ q.date # SABSENT => r.date = q.date
                    /\ q.startDate # SABSENT =>
                          DateValue(r.date) >= DateValue(q.startDate)
                    /\ q.endDate # SABSENT =>
                          DateValue(r.date) <= DateValue(q.endDate)
                    /\ (q.status # SABSENT /\ (strict \/ q.status \in StatusEnum))
                          => r.status = q.status}
        IN  /\ Len(data) = Cardinality(wanted)
            /\ \A r \in wanted : \E i \in DOMAIN data :
                  /\ data[i].id = r.id /\ data[i].employeeId = r.employee_id
                  /\ data[i].date = r.date /\ data[i].status = r.status
                  /\ data[i].checkIn = IF r.check_in = NULL THEN ABSENT ELSE r.check_in
            /\ \A i, j \in DOMAIN data :
                  i < j => DateValue(data[i].date) >= DateValue(data[j].date)

\* C25 (as claimed): the list is exactly the stored records that satisfy
\* every filter supplied (employeeId, date, startDate, endDate, status),
\* the most recent date first.
C25_ListExactlyTheMatching == ListedAre(TRUE)

\* C25 (amended): the same, the status being a filter only when it is one
\* of present, absent, late, half-day, leave; any other status is ignored.
C25_ListMatchingKnownStatus == ListedAre(FALSE)

\* C25 witness: of three stored records the list for the status late holds
\* the two that are late, today's before yesterday's.
C25_Witness ==
    /\ listed.pc = "done" /\ listed.query.status = "late"
    /\ listed.query.employeeId = SABSENT
    /\ Cardinality(attendance) = 3 /\ Len(listed.data) = 2
    /\ listed.data[1].date = Today /\ listed.data[2].date = Yesterday

\* the store holds a row of this id
Stored(id) == \E r \in attendance : r.id = id

---------------------------------------------------------------------------
(* Claims about the geofence (GeoSpec) *)

\* C11: a fix is allowed exactly when its distance from the anchor
\* (14.5995, 120.9842) is at most 0.1 km: the anchor itself is allowed,
\* (14.6014, 120.9842) is rejected; due north or south the last allowed fix
\* is 0.0008 degree away (89 m) and 0.0009 (100.08 m) is rejected, due east
\* or west the last allowed fix is 0.0009 degree away (97 m).
C11_AllowedIffWithinRadius ==
    geoDecision # SNULL =>
        \A pos \in geoPos :
            LET dLat == pos.lat - InstitutionLat
                dLng == pos.lng - InstitutionLng
                abs(x) == IF x < 0 THEN 0 - x ELSE x
            IN  /\ geoDecision \in {"allowed", "rejected"}
                /\ geoDecision = "allowed" <=>
                        DistanceSqCm(pos.lat, pos.lng) <= RadiusCm * RadiusCm
                /\ (dLat = 0 /\ dLng = 0) => geoDecision = "allowed"
                /\ (pos.lat = 146014 /\ pos.lng = 1209842) => geoDecision = "rejected"
                /\ dLng = 0 => (geoDecision = "allowed" <=> abs(dLat) <= 8)
                /\ dLat = 0 => (geoDecision = "allowed" <=> abs(dLng) <= 9)

\* C11 witness: the fix (14.6014, 120.9842) has been checked and rejected.
C11_Witness ==
    /\ geoPos = {[lat |-> 146014, lng |-> 1209842]}
    /\ geoDecision = "rejected"

===========================================================================
